---- MODULE Spec2Model ----
(***************************************************************************)
(* Model of serverless-rds-automation: the provisioning lambda             *)
(* (src/processor_lambda/app.py) and the decommissioning lambda            *)
(* (src/rds_auto_cleanup_lambda/app.py).                                   *)
(*                                                                         *)
(* One behaviour is one invocation.  Every call to an external             *)
(* collaborator (GitHub, CloudWatch, RDS) is one step; its outcome is      *)
(* chosen by the environment.  `calls` is the history of those calls.      *)
(***************************************************************************)
EXTENDS Integers, Sequences, FiniteSets, TLC

\* ------------------------------------------------------------- bounds

\* Longest batch of SQS records in one provisioning invocation.
MaxMessages == 2
\* Number of database instances in the RDS account besides db0, which never
\* carries the auto-cleanup tag.
MaxInstances == 2
\* Longest list of datapoints CloudWatch returns for one metric when the
\* evaluator is run on its own.
MaxDatapoints == 2
\* Largest number of times the scheduler passes from one of two overlapping
\* sweeps to the other.
MaxSwitches == 2

\* ------------------------------------------------- program constants

ConnectionsThreshold == 100
CpuThreshold == 5
NetworkThreshold == 1048576

VARIABLES
    invocation,         \* which entry point runs: "provision", "cleanup", "evaluate"
    pc,                 \* the next call or statement of the invocation
    idx,                \* 1-based position of the for-loop of the handler
    calls,              \* history of collaborator calls: [op, item, arg, outcome, by]
    logged,             \* logger.warning / logger.error records: [level, func, item]
    exc,                \* exception that reached the handler's except clause
    result,             \* the handler's return value, or NoResult
    nRecords,           \* len(event['Records'])
    records,            \* event['Records'][1..idx], the bodies read so far
    autoCleanupTag,     \* RDS: which instances carry tag auto-cleanup=true
    live,               \* RDS: instances that exist
    snapshots,          \* RDS: instances a manual snapshot was taken of
    rds_instances,      \* lambda_handler's local list
    deleted_instances,  \* lambda_handler's local counter
    metricIdx,          \* is_rds_unused: position in metrics_to_check
    tele,               \* is_rds_unused: responses received in this call
    retval,             \* is_rds_unused: the value returned (read at pc = "returned")
    verdict,            \* per list position: "none", "idle", "active"
    branches,           \* GitHub: refs created
    commits,            \* GitHub: content changes committed
    pulls,              \* GitHub: pull requests opened
    branch_name,        \* process_message / create_cleanup_pr: the local branch_name
    self,               \* the sweep that is running: 1 or 2
    suspended,          \* the locals of a sweep that is not running, or NoSweep
    switches            \* how often the scheduler has passed to the other sweep

vars == <<invocation, pc, idx, calls, logged, exc, result, nRecords, records,
          autoCleanupTag, live, snapshots, rds_instances, deleted_instances,
          metricIdx, tele, retval, verdict, branches, commits, pulls,
          branch_name, self, suspended, switches>>

provisionVars == <<nRecords, records>>
rdsVars == <<autoCleanupTag, live, snapshots>>
sweepVars == <<rds_instances, deleted_instances, verdict>>
evalVars == <<metricIdx, tele, retval>>
repoVars == <<branches, commits, pulls>>
schedVars == <<self, suspended, switches>>

NoResult == [statusCode |-> 0]
NoException == "none"

\* ------------------------------------------------------------ helpers

Range(s) == {s[k] : k \in DOMAIN s}

RECURSIVE Max(_)
Max(S) ==
    IF Cardinality(S) = 1 THEN CHOOSE v \in S : TRUE
    ELSE LET v == CHOOSE w \in S : TRUE
             m == Max(S \ {v})
         IN  IF v > m THEN v ELSE m

\* The calls of the history made for list position `item`.
CallsFor(item) == {k \in DOMAIN calls : calls[k].item = item}

Call(op, arg, outcome) ==
    Append(calls, [op |-> op, item |-> idx, arg |-> arg, outcome |-> outcome,
                   by |-> self])

Log(level, func) == Append(logged, [level |-> level, func |-> func, item |-> idx])

Log2(level1, func1, level2, func2) ==
    logged \o <<[level |-> level1, func |-> func1, item |-> idx],
                [level |-> level2, func |-> func2, item |-> idx]>>

\* =====================================================================
\* Provisioning lambda: src/processor_lambda/app.py
\* =====================================================================

RequiredFields == <<"database_name", "database_engine", "environment">>

ValidEngines == {"mysql", "postgresql"}

ValidEnvironments == {"dev", "prod"}

\* The values a request field takes in the model.
FieldValues(field) ==
    CASE field = "database_name" -> {"orders", "users"}
      [] field = "database_engine" -> {"MySQL", "oracle"}
      [] field = "environment" -> {"dev", "Prod", "staging"}

AllFieldValues == UNION {FieldValues(f) : f \in Range(RequiredFields)}

\* A payload: a JSON object with any subset of the required fields.
Payloads ==
    UNION {{p \in [D -> AllFieldValues] : \A f \in D : p[f] \in FieldValues(f)} :
           D \in SUBSET Range(RequiredFields)}

\* An SNS notification around a body.
Envelope(inner) == [Type |-> "Notification", Message |-> inner]

\* The bodies of SQS records: a payload, a notification around a payload, or a
\* notification around a notification around a payload.
Bodies ==
    Payloads \cup {Envelope(p) : p \in Payloads}
             \cup {Envelope(Envelope(p)) : p \in Payloads}

\* str.lower() on the strings of the model.
Lower(s) ==
    CASE s = "MySQL" -> "mysql"
      [] s = "Prod" -> "prod"
      [] OTHER -> s

\* Unwrapping that goes on while the body is a notification.
UnwrapTwice(body) ==
    IF "Type" \in DOMAIN body /\ body["Type"] = "Notification"
    THEN IF "Type" \in DOMAIN body["Message"] /\ body["Message"]["Type"] = "Notification"
         THEN body["Message"]["Message"]
         ELSE body["Message"]
    ELSE body

\* process_message, lines 37-41: the notification layer is removed once.
Unwrap(body) ==
    IF "Type" \in DOMAIN body /\ body["Type"] = "Notification"
    THEN body["Message"]
    ELSE body

\* Validation that forgets the check of the environment (lines 61-65).
ValidateWithoutEnvironment(message_body) ==
    IF \E k \in DOMAIN RequiredFields : RequiredFields[k] \notin DOMAIN message_body
    THEN "ValueError"
    ELSE IF Lower(message_body["database_engine"]) \notin ValidEngines
    THEN "ValueError"
    ELSE NoException

\* process_message, lines 44-65: the error raised by validation, or NoException.
Validate(message_body) ==
    IF \E k \in DOMAIN RequiredFields : RequiredFields[k] \notin DOMAIN message_body
    THEN "ValueError"
    ELSE IF Lower(message_body["database_engine"]) \notin ValidEngines
    THEN "ValueError"
    ELSE IF Lower(message_body["environment"]) \notin ValidEnvironments
    THEN "ValueError"
    ELSE NoException

\* The request of the record being processed (process_message, lines 51-53).
Request ==
    LET message_body == Unwrap(records[idx])
    IN  [database_name |-> message_body["database_name"],
         database_engine |-> Lower(message_body["database_engine"]),
         environment |-> Lower(message_body["environment"])]

\* A template that also carries the moment of its generation.
generate_terraform_config_stamped(database_name, database_engine, environment) ==
    [database_name |-> database_name,
     database_engine |-> database_engine,
     environment |-> environment,
     instance_class |-> IF environment = "dev" THEN "db.t3.micro" ELSE "db.t3.small",
     auto_cleanup |-> "true",
     managed_by |-> "terraform",
     generated_at |-> Len(calls)]

\* generate_terraform_config: the fields the template is filled with.
generate_terraform_config(database_name, database_engine, environment) ==
    [database_name |-> database_name,
     database_engine |-> database_engine,
     environment |-> environment,
     instance_class |-> IF environment = "dev" THEN "db.t3.micro" ELSE "db.t3.small",
     auto_cleanup |-> "true",
     managed_by |-> "terraform"]

\* commit_terraform_config, line 138.
ProvisionFilePath(database_name) == "terraform/rds_" \o database_name \o ".tf"

\* str(uuid.uuid4())[:8]: the random tokens of the model.
Tokens == {"1a2b3c4d", "9f8e7d6c"}

\* process_message, line 72.
ProvisionBranch(database_name, token) == "rds-request-" \o database_name \o "-" \o token

\* create_pull_request, line 158.
ProvisionTitle(database_name, database_engine, environment) ==
    "Provision " \o database_name \o " " \o database_engine
        \o " RDS cluster for " \o environment

DefaultBranch == "main"

\* github_repo_name, line 14.
GithubRepo == "owner/repo"

ProcessorOk == [statusCode |-> 200, message |-> "Messages processed successfully"]

ProcessorError == [statusCode |-> 500, error |-> "Internal server error"]

\* lambda_handler, lines 28-33: any exception of the loop ends the invocation.
ProcessorExcept(e, newLogged) ==
    /\ exc' = e
    /\ logged' = Append(newLogged, [level |-> "error", func |-> "lambda_handler", item |-> idx])
    /\ result' = ProcessorError
    /\ pc' = "done"
    /\ UNCHANGED idx

\* lambda_handler, lines 19-26: the loop over event['Records'].
ProcessorLambdaHandler ==
    /\ invocation = "provision"
    /\ pc = "handler"
    /\ IF idx <= nRecords
       THEN /\ \E body \in Bodies : records' = Append(records, body)
            /\ pc' = "process_message"
            /\ UNCHANGED result
       ELSE /\ result' = ProcessorOk
            /\ pc' = "done"
            /\ UNCHANGED records
    /\ UNCHANGED <<invocation, schedVars, branch_name, idx, calls, logged, exc, nRecords, rdsVars,
                   sweepVars, evalVars, repoVars>>

\* process_message, lines 37-65: parse, unwrap, validate.
ProcessMessage ==
    /\ invocation = "provision"
    /\ pc = "process_message"
    /\ LET e == Validate(Unwrap(records[idx]))
       IN  IF e # NoException
           THEN ProcessorExcept(e, Log("error", "process_message"))
           ELSE /\ pc' = "get_repo"
                /\ UNCHANGED <<idx, logged, exc, result>>
    /\ UNCHANGED <<invocation, schedVars, branch_name, calls, provisionVars, rdsVars, sweepVars,
                   evalVars, repoVars>>

\* process_message, lines 68-75: Github(...).get_repo(...), then the branch
\* name with its random token.
ProcessorGetRepo ==
    /\ invocation = "provision"
    /\ pc = "get_repo"
    /\ \E outcome \in {"ok", "error"} :
        /\ calls' = Call("get_repo", GithubRepo, outcome)
        /\ IF outcome = "ok"
           THEN /\ \E token \in Tokens :
                    branch_name' = ProvisionBranch(Request.database_name, token)
                /\ pc' = "get_git_ref"
                /\ UNCHANGED <<idx, logged, exc, result>>
           ELSE /\ ProcessorExcept("GithubException", logged)
                /\ UNCHANGED branch_name
    /\ UNCHANGED <<invocation, schedVars, provisionVars, rdsVars, sweepVars, evalVars, repoVars>>

\* create_branch, line 94: resolve the tip of the default branch.
CreateBranchGetRef ==
    /\ invocation = "provision"
    /\ pc = "get_git_ref"
    /\ \E outcome \in {"ok", "error"} :
        /\ calls' = Call("get_git_ref", "heads/" \o DefaultBranch, outcome)
        /\ IF outcome = "ok"
           THEN /\ pc' = "create_git_ref"
                /\ UNCHANGED <<idx, logged, exc, result>>
           ELSE ProcessorExcept("GithubException", Log("error", "create_branch"))
    /\ UNCHANGED <<invocation, schedVars, branch_name, provisionVars, rdsVars, sweepVars, evalVars, repoVars>>

\* create_branch whose except clause logs the error and forgets to raise it.
CreateBranchCreateRefSwallowed ==
    /\ invocation = "provision"
    /\ pc = "create_git_ref"
    /\ \E outcome \in {"ok", "error"} :
        /\ calls' = Call("create_git_ref", branch_name, outcome)
        /\ IF outcome = "ok"
           THEN /\ branches' = branches \cup
                        {[name |-> branch_name, item |-> idx]}
                /\ UNCHANGED logged
           ELSE /\ logged' = Log("error", "create_branch")
                /\ UNCHANGED branches
        /\ pc' = "create_file"
        /\ UNCHANGED <<idx, exc, result>>
    /\ UNCHANGED <<invocation, schedVars, branch_name, provisionVars, rdsVars, sweepVars, evalVars,
                   commits, pulls>>

\* create_branch, line 98: create the new ref.
CreateBranchCreateRef ==
    /\ invocation = "provision"
    /\ pc = "create_git_ref"
    /\ \E outcome \in {"ok", "error"} :
        /\ calls' = Call("create_git_ref", branch_name, outcome)
        /\ IF outcome = "ok"
           THEN /\ branches' = branches \cup
                        {[name |-> branch_name, item |-> idx]}
                /\ pc' = "create_file"
                /\ UNCHANGED <<idx, logged, exc, result>>
           ELSE /\ ProcessorExcept("GithubException", Log("error", "create_branch"))
                /\ UNCHANGED branches
    /\ UNCHANGED <<invocation, schedVars, branch_name, provisionVars, rdsVars, sweepVars, evalVars,
                   commits, pulls>>

\* commit_terraform_config that tries repo.create_file a second time when the
\* first attempt fails.
CommitTerraformConfigRetrying ==
    /\ invocation = "provision"
    /\ pc = "create_file"
    /\ \E outcome \in {"ok", "error"} :
        /\ calls' = Call("create_file", ProvisionFilePath(Request.database_name), outcome)
        /\ IF outcome = "ok"
           THEN /\ commits' = commits \cup
                        {[branch |-> branch_name,
                          item |-> idx,
                          path |-> ProvisionFilePath(Request.database_name),
                          change |-> "create",
                          content |-> generate_terraform_config(
                                          Request.database_name,
                                          Request.database_engine,
                                          Request.environment)]}
                /\ pc' = "create_pull"
                /\ UNCHANGED <<idx, logged, exc, result>>
           ELSE IF \A k \in CallsFor(idx) : calls[k].op # "create_file"
           THEN /\ logged' = Log("warning", "commit_terraform_config")
                /\ UNCHANGED <<pc, idx, exc, result, commits>>
           ELSE /\ ProcessorExcept("GithubException",
                                   Log("error", "commit_terraform_config"))
                /\ UNCHANGED commits
    /\ UNCHANGED <<invocation, schedVars, branch_name, provisionVars, rdsVars, sweepVars, evalVars,
                   branches, pulls>>

\* commit_terraform_config, lines 136-154: repo.create_file on the new branch.
CommitTerraformConfig ==
    /\ invocation = "provision"
    /\ pc = "create_file"
    /\ \E outcome \in {"ok", "error"} :
        /\ calls' = Call("create_file", ProvisionFilePath(Request.database_name), outcome)
        /\ IF outcome = "ok"
           THEN /\ commits' = commits \cup
                        {[branch |-> branch_name,
                          item |-> idx,
                          path |-> ProvisionFilePath(Request.database_name),
                          change |-> "create",
                          content |-> generate_terraform_config(
                                          Request.database_name,
                                          Request.database_engine,
                                          Request.environment)]}
                /\ pc' = "create_pull"
                /\ UNCHANGED <<idx, logged, exc, result>>
           ELSE /\ ProcessorExcept("GithubException",
                                   Log("error", "commit_terraform_config"))
                /\ UNCHANGED commits
    /\ UNCHANGED <<invocation, schedVars, branch_name, provisionVars, rdsVars, sweepVars, evalVars,
                   branches, pulls>>

\* create_pull_request whose except clause deletes the branch, and with it the
\* committed file, before it raises.
CreatePullRequestRollingBack ==
    /\ invocation = "provision"
    /\ pc = "create_pull"
    /\ \E outcome \in {"ok", "error"} :
        /\ IF outcome = "ok"
           THEN /\ calls' = Call("create_pull", branch_name, outcome)
                /\ pulls' = pulls \cup
                        {[head |-> branch_name,
                          item |-> idx,
                          base |-> DefaultBranch,
                          title |-> ProvisionTitle(Request.database_name,
                                                   Request.database_engine,
                                                   Request.environment)]}
                /\ idx' = idx + 1
                /\ pc' = "handler"
                /\ UNCHANGED <<logged, exc, result, branches, commits>>
           ELSE /\ calls' = Call("create_pull", branch_name, outcome)
                               \o <<[op |-> "delete_git_ref", item |-> idx,
                                     arg |-> branch_name, outcome |-> "ok", by |-> self]>>
                /\ branches' = {b \in branches : b.name # branch_name}
                /\ commits' = {c \in commits : c.branch # branch_name}
                /\ ProcessorExcept("GithubException", Log("error", "create_pull_request"))
                /\ UNCHANGED pulls
    /\ UNCHANGED <<invocation, schedVars, branch_name, provisionVars, rdsVars, sweepVars, evalVars>>

\* create_pull_request, lines 157-180, and the return to the loop.
CreatePullRequest ==
    /\ invocation = "provision"
    /\ pc = "create_pull"
    /\ \E outcome \in {"ok", "error"} :
        /\ calls' = Call("create_pull", branch_name, outcome)
        /\ IF outcome = "ok"
           THEN /\ pulls' = pulls \cup
                        {[head |-> branch_name,
                          item |-> idx,
                          base |-> DefaultBranch,
                          title |-> ProvisionTitle(Request.database_name,
                                                   Request.database_engine,
                                                   Request.environment)]}
                /\ idx' = idx + 1
                /\ pc' = "handler"
                /\ UNCHANGED <<logged, exc, result>>
           ELSE /\ ProcessorExcept("GithubException", Log("error", "create_pull_request"))
                /\ UNCHANGED pulls
    /\ UNCHANGED <<invocation, schedVars, branch_name, provisionVars, rdsVars, sweepVars, evalVars,
                   branches, commits>>

\* =====================================================================
\* Decommissioning lambda: src/rds_auto_cleanup_lambda/app.py
\* =====================================================================

Instances == 0 .. MaxInstances

\* DBInstanceIdentifier of the k-th instance of the account.
InstanceId(k) == "db" \o ToString(k)

\* get_rds_instances, lines 69-77: the dictionary built for one DB instance.
InstanceRecord(k) ==
    [identifier |-> InstanceId(k), engine |-> "mysql", environment |-> "dev"]

\* describe_db_instances called without the tag filter.
RECURSIVE DescribeDbInstancesUnfiltered(_)
DescribeDbInstancesUnfiltered(k) ==
    IF k > MaxInstances THEN <<>>
    ELSE IF InstanceId(k) \in live
         THEN <<InstanceRecord(k)>> \o DescribeDbInstancesUnfiltered(k + 1)
         ELSE DescribeDbInstancesUnfiltered(k + 1)

\* describe_db_instances with the filter tag:auto-cleanup = true (lines 60-67):
\* the existing tagged instances, in the order of the account.
RECURSIVE DescribeDbInstances(_)
DescribeDbInstances(k) ==
    IF k > MaxInstances THEN <<>>
    ELSE IF autoCleanupTag[k] /\ InstanceId(k) \in live
         THEN <<InstanceRecord(k)>> \o DescribeDbInstances(k + 1)
         ELSE DescribeDbInstances(k + 1)

\* is_rds_unused, lines 98-103.
metrics_to_check ==
    <<"DatabaseConnections", "CPUUtilization",
      "NetworkReceiveThroughput", "NetworkTransmitThroughput">>

\* The values of a statistic of a metric in the model: the largest value that
\* is not activity, and the smallest that is.
QuietValue(metric_name) ==
    CASE metric_name = "DatabaseConnections" -> 100
      [] metric_name = "CPUUtilization" -> 5
      [] OTHER -> 1048576

StatisticValues(metric_name) == {QuietValue(metric_name), QuietValue(metric_name) + 1}

\* A datapoint carries both statistics asked for (line 119); in the model at
\* most one of the two is above the quiet value.
Datapoints(metric_name) ==
    {dp \in [Sum : StatisticValues(metric_name), Average : StatisticValues(metric_name)] :
        dp.Sum = QuietValue(metric_name) \/ dp.Average = QuietValue(metric_name)}

RECURSIVE SeqsUpTo(_, _)
SeqsUpTo(S, n) ==
    IF n = 0 THEN {<<>>}
    ELSE LET shorter == SeqsUpTo(S, n - 1)
         IN  shorter \cup {Append(q, x) : q \in {t \in shorter : Len(t) = n - 1}, x \in S}

Raised == [raised |-> TRUE, Datapoints |-> <<>>]

Returned(datapoints) == [raised |-> FALSE, Datapoints |-> datapoints]

\* What get_metric_statistics may answer.  A sweep sees an error, no
\* datapoint, or one datapoint with both statistics at the threshold or both
\* just above it; the evaluator on its own sees every list of up to
\* MaxDatapoints datapoints.
Responses(metric_name) ==
    {Raised} \cup
    IF invocation = "evaluate"
    THEN {Returned(q) : q \in SeqsUpTo(Datapoints(metric_name), MaxDatapoints)}
    ELSE {Returned(<<>>)} \cup
         {Returned(<<[Sum |-> v, Average |-> v]>>) : v \in StatisticValues(metric_name)}

\* The comparison of the connection count written >= instead of >.
ExceedsAtThreshold(metric_name, datapoints) ==
    /\ datapoints # <<>>
    /\ \/ /\ metric_name = "DatabaseConnections"
          /\ Max({dp.Sum : dp \in Range(datapoints)}) >= ConnectionsThreshold
       \/ /\ metric_name = "CPUUtilization"
          /\ Max({dp.Average : dp \in Range(datapoints)}) > CpuThreshold
       \/ /\ metric_name \in {"NetworkReceiveThroughput", "NetworkTransmitThroughput"}
          /\ Max({dp.Sum : dp \in Range(datapoints)}) > NetworkThreshold

\* is_rds_unused, lines 124-132: the metric shows significant activity.
Exceeds(metric_name, datapoints) ==
    /\ datapoints # <<>>
    /\ \/ /\ metric_name = "DatabaseConnections"
          /\ Max({dp.Sum : dp \in Range(datapoints)}) > ConnectionsThreshold
       \/ /\ metric_name = "CPUUtilization"
          /\ Max({dp.Average : dp \in Range(datapoints)}) > CpuThreshold
       \/ /\ metric_name \in {"NetworkReceiveThroughput", "NetworkTransmitThroughput"}
          /\ Max({dp.Sum : dp \in Range(datapoints)}) > NetworkThreshold

\* An except clause that treats an unreadable metric as no activity.
VerdictOnErrorIdle == TRUE

\* is_rds_unused, lines 137-140: what the except clause returns.
VerdictOnError == FALSE

\* A path built without the rds_ prefix.
CleanupFilePathUnprefixed(identifier) == "terraform/" \o identifier \o ".tf"

\* create_cleanup_pr, line 220.
CleanupFilePath(identifier) == "terraform/rds_" \o identifier \o ".tf"

\* create_cleanup_pr, line 207.
CleanupBranch(identifier, token) == "cleanup-rds-" \o identifier \o "-" \o token

CleanupTitle(identifier) == "Remove Unused RDS: " \o identifier

CleanupOk(processed, deleted) ==
    [statusCode |-> 200, processed |-> processed, deleted |-> deleted]

CleanupError == [statusCode |-> 500, error |-> "RDS auto-cleanup failed"]

\* The instance the loop of lambda_handler is at.
instance == rds_instances[idx]

\* lambda_handler, lines 46-52: any exception ends the sweep.
CleanupExcept(e, newLogged) ==
    /\ exc' = e
    /\ logged' = Append(newLogged, [level |-> "error", func |-> "lambda_handler", item |-> idx])
    /\ result' = CleanupError
    /\ pc' = "done"
    /\ UNCHANGED <<idx, deleted_instances>>

\* get_rds_instances whose except clause logs the error and returns no instance.
GetRdsInstancesSwallowed ==
    /\ invocation = "cleanup"
    /\ pc = "get_rds_instances"
    /\ \E outcome \in {"ok", "error"} :
        /\ calls' = Append(calls, [op |-> "describe_db_instances", item |-> 0,
                                   arg |-> "tag:auto-cleanup", outcome |-> outcome,
                                   by |-> self])
        /\ IF outcome = "ok"
           THEN /\ rds_instances' = DescribeDbInstances(0)
                /\ verdict' = [k \in DOMAIN DescribeDbInstances(0) |-> "none"]
                /\ UNCHANGED logged
           ELSE /\ rds_instances' = <<>>
                /\ verdict' = <<>>
                /\ logged' = Log("error", "get_rds_instances")
        /\ pc' = "loop"
        /\ UNCHANGED <<idx, deleted_instances, exc, result>>
    /\ UNCHANGED <<invocation, schedVars, branch_name, provisionVars, rdsVars,
                   evalVars, repoVars>>

\* get_rds_instances, lines 54-80, and lambda_handler, lines 28-31.
GetRdsInstances ==
    /\ invocation = "cleanup"
    /\ pc = "get_rds_instances"
    /\ \E outcome \in {"ok", "error"} :
        /\ calls' = Append(calls, [op |-> "describe_db_instances", item |-> 0,
                                   arg |-> "tag:auto-cleanup", outcome |-> outcome,
                                   by |-> self])
        /\ IF outcome = "ok"
           THEN /\ rds_instances' = DescribeDbInstances(0)
                /\ verdict' = [k \in DOMAIN DescribeDbInstances(0) |-> "none"]
                /\ pc' = "loop"
                /\ UNCHANGED <<idx, deleted_instances, logged, exc, result>>
           ELSE /\ CleanupExcept("Exception", Log("error", "get_rds_instances"))
                /\ UNCHANGED <<rds_instances, verdict>>
    /\ UNCHANGED <<invocation, schedVars, branch_name, provisionVars, rdsVars, evalVars, repoVars>>

\* lambda_handler, lines 34 and 39-44: the head of the loop and the return.
CleanupLambdaHandler ==
    /\ invocation = "cleanup"
    /\ pc = "loop"
    /\ IF idx <= Len(rds_instances)
       THEN /\ pc' = "is_rds_unused"
            /\ metricIdx' = 1
            /\ tele' = <<>>
            /\ UNCHANGED result
       ELSE /\ result' = CleanupOk(Len(rds_instances), deleted_instances)
            /\ pc' = "done"
            /\ UNCHANGED <<metricIdx, tele>>
    /\ UNCHANGED <<invocation, schedVars, branch_name, idx, calls, logged, exc, provisionVars, rdsVars,
                   sweepVars, retval, repoVars>>

\* is_rds_unused that queries every metric before it decides.
IsRdsUnusedExhaustive ==
    /\ invocation \in {"cleanup", "evaluate"}
    /\ pc = "is_rds_unused"
    /\ LET metric_name == metrics_to_check[metricIdx] IN
       \E response \in Responses(metric_name) :
        /\ calls' = Call("get_metric_statistics", metric_name,
                         IF response.raised THEN "error" ELSE "ok")
        /\ tele' = Append(tele, response)
        /\ IF response.raised
           THEN /\ logged' = Log("error", "is_rds_unused")
                /\ retval' = VerdictOnError
                /\ pc' = "returned"
                /\ UNCHANGED metricIdx
           ELSE IF metricIdx = Len(metrics_to_check)
           THEN /\ retval' = \A k \in DOMAIN tele' :
                                ~Exceeds(metrics_to_check[k], tele'[k].Datapoints)
                /\ pc' = "returned"
                /\ UNCHANGED <<metricIdx, logged>>
           ELSE /\ metricIdx' = metricIdx + 1
                /\ UNCHANGED <<retval, pc, logged>>
    /\ UNCHANGED <<invocation, schedVars, branch_name, idx, exc, result, provisionVars, rdsVars,
                   sweepVars, repoVars>>

\* is_rds_unused, lines 106-140: one iteration of the loop over the metrics.
IsRdsUnused ==
    /\ invocation \in {"cleanup", "evaluate"}
    /\ pc = "is_rds_unused"
    /\ LET metric_name == metrics_to_check[metricIdx] IN
       \E response \in Responses(metric_name) :
        /\ calls' = Call("get_metric_statistics", metric_name,
                         IF response.raised THEN "error" ELSE "ok")
        /\ tele' = Append(tele, response)
        /\ IF response.raised
           THEN /\ logged' = Log("error", "is_rds_unused")
                /\ retval' = VerdictOnError
                /\ pc' = "returned"
                /\ UNCHANGED metricIdx
           ELSE IF Exceeds(metric_name, response.Datapoints)
           THEN /\ retval' = FALSE
                /\ pc' = "returned"
                /\ UNCHANGED <<metricIdx, logged>>
           ELSE IF metricIdx = Len(metrics_to_check)
           THEN /\ retval' = TRUE
                /\ pc' = "returned"
                /\ UNCHANGED <<metricIdx, logged>>
           ELSE /\ metricIdx' = metricIdx + 1
                /\ UNCHANGED <<retval, pc, logged>>
    /\ UNCHANGED <<invocation, schedVars, branch_name, idx, exc, result, provisionVars, rdsVars,
                   sweepVars, repoVars>>

\* lambda_handler, lines 35-37: the branch on the value is_rds_unused returned.
\* The locals of is_rds_unused are gone once it has returned.
CleanupBranchOnVerdict ==
    /\ invocation = "cleanup"
    /\ pc = "returned"
    /\ tele' = <<>>
    /\ IF retval
       THEN /\ verdict' = [verdict EXCEPT ![idx] = "idle"]
            /\ pc' = "create_db_snapshot"
            /\ UNCHANGED idx
       ELSE /\ verdict' = [verdict EXCEPT ![idx] = "active"]
            /\ idx' = idx + 1
            /\ pc' = "loop"
    /\ UNCHANGED <<invocation, schedVars, branch_name, calls, logged, exc, result, provisionVars, rdsVars,
                   rds_instances, deleted_instances, metricIdx, retval, repoVars>>

\* create_final_snapshot whose except clause raises the error again.
CreateFinalSnapshotRaising ==
    /\ invocation = "cleanup"
    /\ pc = "create_db_snapshot"
    /\ \E outcome \in {"ok", "error"} :
        /\ calls' = Call("create_db_snapshot", instance.identifier, outcome)
        /\ IF outcome = "ok"
           THEN /\ snapshots' = snapshots \cup {instance.identifier}
                /\ pc' = "delete_db_instance"
                /\ UNCHANGED <<idx, deleted_instances, logged, exc, result>>
           ELSE /\ CleanupExcept("Exception",
                                 Log2("warning", "create_final_snapshot",
                                      "error", "cleanup_unused_instance"))
                /\ UNCHANGED snapshots
    /\ UNCHANGED <<invocation, schedVars, branch_name, provisionVars, autoCleanupTag, live,
                   rds_instances, verdict, evalVars, repoVars>>

\* create_final_snapshot, lines 169-183: a failure is logged and absorbed.
CreateFinalSnapshot ==
    /\ invocation = "cleanup"
    /\ pc = "create_db_snapshot"
    /\ \E outcome \in {"ok", "error"} :
        /\ calls' = Call("create_db_snapshot", instance.identifier, outcome)
        /\ IF outcome = "ok"
           THEN /\ snapshots' = snapshots \cup {instance.identifier}
                /\ UNCHANGED logged
           ELSE /\ logged' = Log("warning", "create_final_snapshot")
                /\ UNCHANGED snapshots
    /\ pc' = "delete_db_instance"
    /\ UNCHANGED <<invocation, schedVars, branch_name, idx, exc, result, provisionVars, autoCleanupTag,
                   live, sweepVars, evalVars, repoVars>>

\* delete_rds_instance whose except clause logs the error and forgets to raise it.
DeleteRdsInstanceSwallowed ==
    /\ invocation = "cleanup"
    /\ pc = "delete_db_instance"
    /\ \E outcome \in {"ok", "error"} :
        /\ calls' = Call("delete_db_instance", instance.identifier, outcome)
        /\ IF outcome = "ok"
           THEN /\ live' = live \ {instance.identifier}
                /\ UNCHANGED logged
           ELSE /\ logged' = Log("error", "delete_rds_instance")
                /\ UNCHANGED live
        /\ pc' = "get_repo"
        /\ UNCHANGED <<idx, deleted_instances, exc, result>>
    /\ UNCHANGED <<invocation, schedVars, branch_name, provisionVars, autoCleanupTag, snapshots,
                   rds_instances, verdict, evalVars, repoVars>>

\* delete_rds_instance behind a lease on the instance: the instance is skipped
\* when a delete for it has already been issued.
DeleteRdsInstanceLeased ==
    /\ invocation = "cleanup"
    /\ pc = "delete_db_instance"
    /\ IF \E k \in DOMAIN calls :
              calls[k].op = "delete_db_instance" /\ calls[k].arg = instance.identifier
       THEN /\ idx' = idx + 1
            /\ pc' = "loop"
            /\ UNCHANGED <<calls, live, deleted_instances, logged, exc, result>>
       ELSE \E outcome \in {"ok", "error"} :
            /\ calls' = Call("delete_db_instance", instance.identifier, outcome)
            /\ IF outcome = "ok"
               THEN /\ live' = live \ {instance.identifier}
                    /\ pc' = "get_repo"
                    /\ UNCHANGED <<idx, deleted_instances, logged, exc, result>>
               ELSE /\ CleanupExcept("Exception",
                                     Log2("error", "delete_rds_instance",
                                          "error", "cleanup_unused_instance"))
                    /\ UNCHANGED live
    /\ UNCHANGED <<invocation, schedVars, branch_name, provisionVars, autoCleanupTag, snapshots,
                   rds_instances, verdict, evalVars, repoVars>>

\* delete_rds_instance, lines 185-199: a failure is logged and raised again.
DeleteRdsInstance ==
    /\ invocation = "cleanup"
    /\ pc = "delete_db_instance"
    /\ \E outcome \in {"ok", "error"} :
        /\ calls' = Call("delete_db_instance", instance.identifier, outcome)
        /\ IF outcome = "ok"
           THEN /\ live' = live \ {instance.identifier}
                /\ pc' = "get_repo"
                /\ UNCHANGED <<idx, deleted_instances, logged, exc, result>>
           ELSE /\ CleanupExcept("Exception",
                                 Log2("error", "delete_rds_instance",
                                      "error", "cleanup_unused_instance"))
                /\ UNCHANGED live
    /\ UNCHANGED <<invocation, schedVars, branch_name, provisionVars, autoCleanupTag, snapshots,
                   rds_instances, verdict, evalVars, repoVars>>

\* cleanup_unused_instance, lines 157-158: Github(...).get_repo(...), then
\* create_cleanup_pr, line 207: the branch name with its random token.
CleanupGetRepo ==
    /\ invocation = "cleanup"
    /\ pc = "get_repo"
    /\ \E outcome \in {"ok", "error"} :
        /\ calls' = Call("get_repo", GithubRepo, outcome)
        /\ IF outcome = "ok"
           THEN /\ \E token \in Tokens :
                    branch_name' = CleanupBranch(instance.identifier, token)
                /\ pc' = "get_git_ref"
                /\ UNCHANGED <<idx, deleted_instances, logged, exc, result>>
           ELSE /\ CleanupExcept("GithubException",
                                 Log("error", "cleanup_unused_instance"))
                /\ UNCHANGED branch_name
    /\ UNCHANGED <<invocation, schedVars, provisionVars, rdsVars, rds_instances, verdict,
                   evalVars, repoVars>>

\* create_cleanup_pr, lines 213-214: resolve the tip of the default branch.
CleanupPrGetRef ==
    /\ invocation = "cleanup"
    /\ pc = "get_git_ref"
    /\ \E outcome \in {"ok", "error"} :
        /\ calls' = Call("get_git_ref", "heads/" \o DefaultBranch, outcome)
        /\ IF outcome = "ok"
           THEN /\ pc' = "create_git_ref"
                /\ UNCHANGED <<idx, deleted_instances, logged, exc, result>>
           ELSE CleanupExcept("GithubException",
                              Log2("error", "create_cleanup_pr",
                                   "error", "cleanup_unused_instance"))
    /\ UNCHANGED <<invocation, schedVars, branch_name, provisionVars, rdsVars, rds_instances, verdict,
                   evalVars, repoVars>>

\* create_cleanup_pr, line 217: create the new ref.
CleanupPrCreateRef ==
    /\ invocation = "cleanup"
    /\ pc = "create_git_ref"
    /\ \E outcome \in {"ok", "error"} :
        /\ calls' = Call("create_git_ref", branch_name, outcome)
        /\ IF outcome = "ok"
           THEN /\ branches' = branches \cup
                        {[name |-> branch_name, item |-> idx]}
                /\ pc' = "get_contents"
                /\ UNCHANGED <<idx, deleted_instances, logged, exc, result>>
           ELSE /\ CleanupExcept("GithubException",
                                 Log2("error", "create_cleanup_pr",
                                      "error", "cleanup_unused_instance"))
                /\ UNCHANGED branches
    /\ UNCHANGED <<invocation, schedVars, branch_name, provisionVars, rdsVars, rds_instances, verdict,
                   evalVars, commits, pulls>>

\* create_cleanup_pr without the inner try: a failed lookup reaches the outer
\* except clause and is raised.
CleanupPrGetContentsRaising ==
    /\ invocation = "cleanup"
    /\ pc = "get_contents"
    /\ \E outcome \in {"ok", "not_found", "error"} :
        /\ calls' = Call("get_contents", CleanupFilePath(instance.identifier), outcome)
        /\ IF outcome = "ok"
           THEN /\ pc' = "delete_file"
                /\ UNCHANGED <<idx, deleted_instances, logged, exc, result>>
           ELSE CleanupExcept("GithubException",
                              Log2("error", "create_cleanup_pr",
                                   "error", "cleanup_unused_instance"))
    /\ UNCHANGED <<invocation, schedVars, branch_name, provisionVars, rdsVars, rds_instances, verdict,
                   evalVars, repoVars>>

\* create_cleanup_pr, lines 223-224 and 233-234: look the file up on the
\* default branch; every exception of the lookup is caught and logged.
CleanupPrGetContents ==
    /\ invocation = "cleanup"
    /\ pc = "get_contents"
    /\ \E outcome \in {"ok", "not_found", "error"} :
        /\ calls' = Call("get_contents", CleanupFilePath(instance.identifier), outcome)
        /\ IF outcome = "ok"
           THEN /\ pc' = "delete_file"
                /\ UNCHANGED logged
           ELSE /\ pc' = "create_pull"
                /\ logged' = Log("warning", "create_cleanup_pr")
    /\ UNCHANGED <<invocation, schedVars, branch_name, idx, exc, result, provisionVars, rdsVars, sweepVars,
                   evalVars, repoVars>>

\* create_cleanup_pr, lines 227-234: delete the file on the new branch; every
\* exception of the deletion is caught and logged.
CleanupPrDeleteFile ==
    /\ invocation = "cleanup"
    /\ pc = "delete_file"
    /\ \E outcome \in {"ok", "error"} :
        /\ calls' = Call("delete_file", CleanupFilePath(instance.identifier), outcome)
        /\ IF outcome = "ok"
           THEN /\ commits' = commits \cup
                        {[branch |-> branch_name,
                          item |-> idx,
                          path |-> CleanupFilePath(instance.identifier),
                          change |-> "delete",
                          content |-> <<>>]}
                /\ UNCHANGED logged
           ELSE /\ logged' = Log("warning", "create_cleanup_pr")
                /\ UNCHANGED commits
    /\ pc' = "create_pull"
    /\ UNCHANGED <<invocation, schedVars, branch_name, idx, exc, result, provisionVars, rdsVars, sweepVars,
                   evalVars, branches, pulls>>

\* create_cleanup_pr, lines 237-257, then cleanup_unused_instance returns and
\* lambda_handler, line 37, counts the instance.
CleanupPrCreatePull ==
    /\ invocation = "cleanup"
    /\ pc = "create_pull"
    /\ \E outcome \in {"ok", "error"} :
        /\ calls' = Call("create_pull", branch_name, outcome)
        /\ IF outcome = "ok"
           THEN /\ pulls' = pulls \cup
                        {[head |-> branch_name,
                          item |-> idx,
                          base |-> DefaultBranch,
                          title |-> CleanupTitle(instance.identifier)]}
                /\ deleted_instances' = deleted_instances + 1
                /\ idx' = idx + 1
                /\ pc' = "loop"
                /\ UNCHANGED <<logged, exc, result>>
           ELSE /\ CleanupExcept("GithubException",
                                 Log2("error", "create_cleanup_pr",
                                      "error", "cleanup_unused_instance"))
                /\ UNCHANGED pulls
    /\ UNCHANGED <<invocation, schedVars, branch_name, provisionVars, rdsVars, rds_instances, verdict,
                   evalVars, branches, commits>>

\* =====================================================================
\* Specification
\* =====================================================================

NoSweep == [pc |-> "none"]

InitCommon ==
    /\ idx = 1
    /\ branch_name = ""
    /\ self = 1
    /\ switches = 0
    /\ calls = <<>>
    /\ logged = <<>>
    /\ exc = NoException
    /\ result = NoResult
    /\ records = <<>>
    /\ live = {InstanceId(k) : k \in Instances}
    /\ snapshots = {}
    /\ deleted_instances = 0
    /\ metricIdx = 1
    /\ tele = <<>>
    /\ retval = FALSE
    /\ branches = {}
    /\ commits = {}
    /\ pulls = {}

\* An invocation of the provisioning lambda on a batch of records.
InitProvision ==
    /\ invocation = "provision"
    /\ pc = "handler"
    /\ nRecords \in 0 .. MaxMessages
    /\ autoCleanupTag = [k \in Instances |-> FALSE]
    /\ rds_instances = <<>>
    /\ verdict = <<>>

\* An invocation of the decommissioning lambda on an account.
InitCleanup ==
    /\ invocation = "cleanup"
    /\ pc = "get_rds_instances"
    /\ nRecords = 0
    /\ autoCleanupTag \in {t \in [Instances -> BOOLEAN] : ~t[0]}
    /\ rds_instances = <<>>
    /\ verdict = <<>>

\* A call of is_rds_unused on one instance.
InitEvaluate ==
    /\ invocation = "evaluate"
    /\ pc = "is_rds_unused"
    /\ nRecords = 0
    /\ autoCleanupTag = [k \in Instances |-> k = 1]
    /\ rds_instances = <<InstanceRecord(1)>>
    /\ verdict = <<"none">>

Init ==
    /\ InitCommon
    /\ suspended = NoSweep
    /\ (InitProvision \/ InitCleanup \/ InitEvaluate)

Next ==
    \/ ProcessorLambdaHandler
    \/ ProcessMessage
    \/ ProcessorGetRepo
    \/ CreateBranchGetRef
    \/ CreateBranchCreateRef
    \/ CommitTerraformConfig
    \/ CreatePullRequest
    \/ GetRdsInstances
    \/ CleanupLambdaHandler
    \/ IsRdsUnused
    \/ CleanupBranchOnVerdict
    \/ CreateFinalSnapshot
    \/ DeleteRdsInstance
    \/ CleanupGetRepo
    \/ CleanupPrGetRef
    \/ CleanupPrCreateRef
    \/ CleanupPrGetContents
    \/ CleanupPrDeleteFile
    \/ CleanupPrCreatePull

Spec == Init /\ [][Next]_vars

\* ---------------------------------------------- two overlapping sweeps

\* The locals of the invocation that is running.
Locals ==
    [pc |-> pc, idx |-> idx, rds_instances |-> rds_instances,
     deleted_instances |-> deleted_instances, metricIdx |-> metricIdx,
     tele |-> tele, retval |-> retval, verdict |-> verdict, exc |-> exc,
     result |-> result, branch_name |-> branch_name, self |-> self]

\* The locals of an invocation of lambda_handler that has not taken a step.
NewSweep(s) ==
    [pc |-> "get_rds_instances", idx |-> 1, rds_instances |-> <<>>,
     deleted_instances |-> 0, metricIdx |-> 1, tele |-> <<>>, retval |-> FALSE,
     verdict |-> <<>>, exc |-> NoException, result |-> NoResult,
     branch_name |-> "", self |-> s]

\* The scheduler passes from the running sweep to the other one, between two
\* steps of the running sweep.  The two invocations share nothing but RDS,
\* CloudWatch, GitHub and the log.
Switch ==
    /\ suspended # NoSweep
    /\ suspended.pc # "done"
    /\ switches < MaxSwitches
    /\ switches' = switches + 1
    /\ suspended' = Locals
    /\ pc' = suspended.pc
    /\ idx' = suspended.idx
    /\ rds_instances' = suspended.rds_instances
    /\ deleted_instances' = suspended.deleted_instances
    /\ metricIdx' = suspended.metricIdx
    /\ tele' = suspended.tele
    /\ retval' = suspended.retval
    /\ verdict' = suspended.verdict
    /\ exc' = suspended.exc
    /\ result' = suspended.result
    /\ branch_name' = suspended.branch_name
    /\ self' = suspended.self
    /\ UNCHANGED <<invocation, calls, logged, provisionVars, rdsVars, repoVars>>

\* Two invocations of the decommissioning lambda on an account with one
\* tagged instance.
InitRace ==
    /\ InitCommon
    /\ suspended = NewSweep(2)
    /\ invocation = "cleanup"
    /\ pc = "get_rds_instances"
    /\ nRecords = 0
    /\ autoCleanupTag = [k \in Instances |-> k = 1]
    /\ rds_instances = <<>>
    /\ verdict = <<>>

NextRace ==
    \/ GetRdsInstances
    \/ CleanupLambdaHandler
    \/ IsRdsUnused
    \/ CleanupBranchOnVerdict
    \/ CreateFinalSnapshot
    \/ DeleteRdsInstance
    \/ CleanupGetRepo
    \/ CleanupPrGetRef
    \/ CleanupPrCreateRef
    \/ CleanupPrGetContents
    \/ CleanupPrDeleteFile
    \/ CleanupPrCreatePull
    \/ Switch

SpecRace == InitRace /\ [][NextRace]_vars

\* =====================================================================
\* Properties
\* =====================================================================

\* The records read so far that the handler has validated.
Validated(i) == i \in DOMAIN records /\ ~(i = idx /\ pc = "process_message")

\* A body whose payload, the notification layer removed, is not a valid request.
InvalidBody(body) ==
    LET b == Unwrap(body)
    IN  \/ \E f \in {"database_name", "database_engine", "environment"} : f \notin DOMAIN b
        \/ Lower(b["database_engine"]) \notin {"mysql", "postgresql"}
        \/ Lower(b["environment"]) \notin {"dev", "prod"}

\* The calls to GitHub.
SourceHostingOps ==
    {"get_repo", "get_git_ref", "create_git_ref", "create_file", "get_contents",
     "delete_file", "create_pull"}

\* The calls cleanup_unused_instance makes.
CleanupOps == {"create_db_snapshot", "delete_db_instance"} \cup SourceHostingOps

\* The positions of the history of the calls `ops` for `item`.
CallsOf(item, ops) == {k \in CallsFor(item) : calls[k].op \in ops}

\* C1: a record whose unwrapped body lacks a required field, or whose engine or
\* environment is outside the enumerated sets, raises a validation error and
\* no call to GitHub is ever made for it.
C1_InvalidRequestHasNoSideEffect ==
    invocation = "provision" =>
        \A i \in DOMAIN records :
            InvalidBody(records[i]) =>
                /\ CallsFor(i) = {}
                /\ \A b \in branches \cup commits \cup pulls : b.item # i
                /\ Validated(i) => (exc = "ValueError" /\ pc = "done" /\ idx = i)

C1_Witness ==
    /\ invocation = "provision"
    /\ pc = "done"
    /\ exc = "ValueError"
    /\ idx = 2
    /\ InvalidBody(records[2])
    /\ "environment" \in DOMAIN Unwrap(records[2])
    /\ \E p \in pulls : p.item = 1

\* C2: a snapshot request, an instance deletion and the calls of a delete
\* proposal are made only for an instance this sweep enumerated under the tag
\* filter and evaluated idle; an active instance gets none of them.
C2_CleanupOnlyForEnumeratedIdle ==
    invocation = "cleanup" =>
        /\ \A k \in DOMAIN calls :
            calls[k].op \in CleanupOps =>
                /\ calls[k].item \in DOMAIN rds_instances
                /\ verdict[calls[k].item] = "idle"
                /\ \E n \in Instances :
                    /\ autoCleanupTag[n]
                    /\ rds_instances[calls[k].item].identifier = InstanceId(n)
                /\ Cardinality({j \in CallsOf(calls[k].item, {"get_metric_statistics"}) :
                                    j < k /\ calls[j].outcome = "ok"})
                       = Len(metrics_to_check)
        /\ \A i \in DOMAIN verdict :
            verdict[i] # "idle" => CallsOf(i, CleanupOps) = {}
        /\ \A n \in Instances :
            ~autoCleanupTag[n] =>
                /\ InstanceId(n) \in live
                /\ \A k \in DOMAIN calls : calls[k].arg # InstanceId(n)

C2_Witness ==
    /\ invocation = "cleanup"
    /\ pc = "done"
    /\ Len(rds_instances) = 2
    /\ \E n \in Instances : ~autoCleanupTag[n] /\ InstanceId(n) \in live
    /\ verdict[1] = "active"
    /\ verdict[2] = "idle"
    /\ \E p \in pulls : p.item = 2

\* C3: when a telemetry query raises, is_rds_unused returns False, whichever
\* signal it was, and the instance gets no snapshot, deletion or proposal in
\* that sweep.
C3_TelemetryFailClosed ==
    /\ (pc = "returned" /\ \E k \in DOMAIN tele : tele[k].raised) => retval = FALSE
    /\ invocation = "cleanup" =>
        \A k \in DOMAIN calls :
            (calls[k].op = "get_metric_statistics" /\ calls[k].outcome = "error") =>
                /\ CallsOf(calls[k].item, CleanupOps) = {}
                /\ rds_instances[calls[k].item].identifier \in live
                /\ verdict[calls[k].item] # "idle"

C3_Witness ==
    /\ invocation = "cleanup"
    /\ pc = "done"
    /\ Len(rds_instances) = MaxInstances
    /\ \A i \in DOMAIN rds_instances :
        \E k \in CallsFor(i) : calls[k].outcome = "error"
    /\ \E k \in DOMAIN calls :
        calls[k].arg = "NetworkTransmitThroughput" /\ calls[k].outcome = "error"
    /\ result.statusCode = 200
    /\ result.deleted = 0
    /\ live = {InstanceId(n) : n \in Instances}

\* The k-th signal is at or below its threshold, or has no datapoints.
QuietSignal(k, datapoints) ==
    \A dp \in Range(datapoints) :
        CASE k = 1 -> dp.Sum <= 100
          [] k = 2 -> dp.Average <= 5
          [] k = 3 -> dp.Sum <= 1048576
          [] k = 4 -> dp.Sum <= 1048576

\* C4: when no telemetry query fails, is_rds_unused returns True exactly when
\* every signal is at or below its threshold or has no datapoints (100
\* connections are idle, 101 are active), and then it has read all four.
C4_IdleIffAllSignalsQuiet ==
    (pc = "returned" /\ \A k \in DOMAIN tele : ~tele[k].raised) =>
        /\ retval = (\A k \in DOMAIN tele : QuietSignal(k, tele[k].Datapoints))
        /\ retval => Len(tele) = 4

C4_Witness ==
    /\ invocation = "evaluate"
    /\ pc = "returned"
    /\ retval
    /\ Len(tele[1].Datapoints) = 2
    /\ \E dp \in Range(tele[1].Datapoints) : dp.Sum = 100 /\ dp.Average = 101
    /\ tele[2].Datapoints = <<>>
    /\ \E dp \in Range(tele[3].Datapoints) : dp.Sum = 1048576
    /\ \E dp \in Range(tele[4].Datapoints) : dp.Sum = 1048576

\* The instances of the sweep whose cleanup ran to the end.
CleanedUp == {i \in DOMAIN rds_instances :
                \E k \in CallsOf(i, {"create_pull"}) : calls[k].outcome = "ok"}

\* C5: when the deletion or the proposal of one instance fails, the sweep still
\* evaluates every other instance and returns the count of cleaned-up
\* instances against the number examined.
C5_SweepIsolation ==
    (invocation = "cleanup" /\ pc = "done" /\ calls[1].outcome = "ok") =>
        /\ \A i \in DOMAIN rds_instances : verdict[i] # "none"
        /\ result.statusCode = 200
        /\ result.processed = Len(rds_instances)
        /\ result.deleted = Cardinality(CleanedUp)

\* C6: a failure on one record of a batch does not keep the other records of
\* the batch from being processed, and the proposals of the earlier records
\* stay.
C6_BatchIsolation ==
    (invocation = "provision" /\ pc = "done") =>
        /\ \A i \in 1 .. nRecords : i \in DOMAIN records
        /\ \A i \in DOMAIN records : i < idx => \E p \in pulls : p.item = i

\* C7: for an idle instance the snapshot request comes before the deletion and
\* the deletion before every call to GitHub; after a failed deletion no call to
\* GitHub is made for the instance.
C7_SnapshotDeleteProposeOrder ==
    invocation = "cleanup" =>
        \A i \in DOMAIN rds_instances :
            /\ \A d \in CallsOf(i, {"delete_db_instance"}) :
                /\ \E s \in CallsOf(i, {"create_db_snapshot"}) : s < d
                /\ calls[d].outcome = "error" => CallsOf(i, SourceHostingOps) = {}
            /\ \A g \in CallsOf(i, SourceHostingOps) :
                \E d \in CallsOf(i, {"delete_db_instance"}) :
                    d < g /\ calls[d].outcome = "ok"

C7_Witness ==
    /\ invocation = "cleanup"
    /\ pc = "done"
    /\ \E p \in pulls : p.item = 1
    /\ calls[Len(calls)].op = "delete_db_instance"
    /\ calls[Len(calls)].item = 2
    /\ calls[Len(calls)].outcome = "error"

\* C8: a failed snapshot request is absorbed: the deletion is the next call, the
\* invocation goes on, and the instance is counted when deletion and proposal
\* succeed.
C8_SnapshotFailureAbsorbed ==
    invocation = "cleanup" =>
        /\ \A k \in DOMAIN calls :
            (calls[k].op = "create_db_snapshot" /\ calls[k].outcome = "error") =>
                IF k = Len(calls)
                THEN pc = "delete_db_instance" /\ exc = NoException
                ELSE /\ calls[k + 1].op = "delete_db_instance"
                     /\ calls[k + 1].item = calls[k].item
        /\ pc \in {"loop", "is_rds_unused", "returned"} =>
            deleted_instances = Cardinality(CleanedUp)
        /\ (pc = "done" /\ result.statusCode = 200) =>
            result.deleted = Cardinality(CleanedUp)

C8_Witness ==
    /\ invocation = "cleanup"
    /\ pc = "done"
    /\ result.statusCode = 200
    /\ result.deleted = 1
    /\ \E k \in DOMAIN calls :
        /\ calls[k].op = "create_db_snapshot"
        /\ calls[k].outcome = "error"
        /\ calls[k].item \in CleanedUp
        /\ rds_instances[calls[k].item].identifier \notin live

\* The content step of the proposal of `item` has finished before position k.
ContentStepFinished(item, k) ==
    IF invocation = "provision"
    THEN \E j \in CallsOf(item, {"create_file"}) : j < k /\ calls[j].outcome = "ok"
    ELSE \E j \in CallsOf(item, {"get_contents"}) :
            /\ j < k
            /\ calls[j].outcome = "ok" =>
                \E m \in CallsOf(item, {"delete_file"}) : j < m /\ m < k

\* C9: in both workflows the ref is created from the tip of the base branch
\* before any content change, and the pull request is opened after the content
\* step; an error in step 1 ends the proposal with no content change and no pull
\* request, an error in step 3 reaches the caller as a failure.
C9_ProposalStepsInOrder ==
    \A k \in DOMAIN calls :
        LET c == calls[k] IN
        /\ c.op = "create_git_ref" =>
            \E j \in CallsOf(c.item, {"get_git_ref"}) : j < k /\ calls[j].outcome = "ok"
        /\ c.op \in {"create_file", "get_contents", "delete_file"} =>
            \E j \in CallsOf(c.item, {"create_git_ref"}) : j < k /\ calls[j].outcome = "ok"
        /\ c.op = "create_pull" => ContentStepFinished(c.item, k)
        /\ (c.op \in {"get_git_ref", "create_git_ref"} /\ c.outcome = "error") =>
            /\ k = Len(calls)
            /\ pc = "done"
            /\ exc = "GithubException"
            /\ result.statusCode = 500
            /\ \A x \in commits \cup pulls : x.item # c.item
        /\ (c.op = "create_pull" /\ c.outcome = "error") =>
            /\ k = Len(calls)
            /\ pc = "done"
            /\ exc = "GithubException"
            /\ result.statusCode = 500
            /\ \A x \in pulls : x.item # c.item

C9_Witness ==
    /\ invocation = "provision"
    /\ pc = "done"
    /\ \E p \in pulls : p.item = 1
    /\ \E b \in commits : b.item = 2
    /\ calls[Len(calls)].op = "create_pull"
    /\ calls[Len(calls)].item = 2
    /\ calls[Len(calls)].outcome = "error"

\* C10: when the Terraform file is not on the base branch, the delete proposal
\* records the absence, makes no delete-file call, and still opens the pull
\* request from the new branch into the base branch.
C10_MissingFileIsNotFatal ==
    invocation = "cleanup" =>
        \A k \in DOMAIN calls :
            (calls[k].op = "get_contents" /\ calls[k].outcome = "not_found") =>
                /\ CallsOf(calls[k].item, {"delete_file"}) = {}
                /\ \A x \in commits : x.item # calls[k].item
                /\ \E w \in Range(logged) :
                    /\ w.level = "warning"
                    /\ w.func = "create_cleanup_pr"
                    /\ w.item = calls[k].item
                /\ IF k = Len(calls)
                   THEN pc = "create_pull" /\ exc = NoException
                   ELSE /\ calls[k + 1].op = "create_pull"
                        /\ calls[k + 1].item = calls[k].item
                        /\ \E token \in Tokens :
                               calls[k + 1].arg =
                                   CleanupBranch(rds_instances[calls[k].item].identifier,
                                                 token)
                        /\ calls[k + 1].outcome = "ok" =>
                               \E p \in pulls :
                                   /\ p.item = calls[k].item
                                   /\ p.head = calls[k + 1].arg
                                   /\ p.base = DefaultBranch

C10_Witness ==
    /\ invocation = "cleanup"
    /\ \E k \in DOMAIN calls :
        /\ calls[k].op = "get_contents"
        /\ calls[k].outcome = "not_found"
        /\ \E p \in pulls : p.item = calls[k].item /\ p.base = DefaultBranch
        /\ calls[k].item \in CleanedUp

\* C11: every error of step 2 other than file-not-found reaches the caller and
\* no pull request is opened for the proposal: a failed create_file, a lookup
\* that fails for another reason than absence, a rejected delete_file.
C11_Step2ErrorsPropagate ==
    \A k \in DOMAIN calls :
        (calls[k].op \in {"create_file", "get_contents", "delete_file"}
            /\ calls[k].outcome = "error") =>
            /\ k = Len(calls)
            /\ pc = "done"
            /\ result.statusCode = 500
            /\ \A p \in pulls : p.item # calls[k].item

\* The body is a notification.
IsNotification(body) == "Type" \in DOMAIN body /\ body["Type"] = "Notification"

\* The object has the three fields, and engine and environment canonicalise
\* into the enumerated sets.
ValidRequest(b) ==
    /\ {"database_name", "database_engine", "environment"} \subseteq DOMAIN b
    /\ Lower(b["database_engine"]) \in {"mysql", "postgresql"}
    /\ Lower(b["environment"]) \in {"dev", "prod"}

\* The payload of a body after exactly one layer of unwrapping.
OneLayerDown(body) == IF IsNotification(body) THEN body["Message"] ELSE body

\* C12: a notification is unwrapped exactly once before validation and any
\* other body is validated as it is; a doubly wrapped payload fails validation
\* for its missing fields and causes no call to GitHub.
C12_UnwrapExactlyOnce ==
    invocation = "provision" =>
        \A i \in DOMAIN records :
            Validated(i) =>
                /\ ValidRequest(OneLayerDown(records[i]))
                       = ~(exc = "ValueError" /\ idx = i)
                /\ (IsNotification(records[i]) /\ IsNotification(records[i]["Message"])) =>
                       /\ exc = "ValueError"
                       /\ idx = i
                       /\ CallsFor(i) = {}
                /\ \A c \in commits :
                       c.item = i =>
                           c.content.database_name
                               = OneLayerDown(records[i])["database_name"]

C12_Witness ==
    /\ invocation = "provision"
    /\ pc = "done"
    /\ idx = 2
    /\ Len(records) = 2
    /\ IsNotification(records[1])
    /\ \E p \in pulls : p.item = 1
    /\ IsNotification(records[2])
    /\ IsNotification(records[2]["Message"])
    /\ ValidRequest(records[2]["Message"]["Message"])
    /\ exc = "ValueError"
    /\ CallsFor(2) = {}

\* C13: when the enumeration of the instances raises, the sweep makes no
\* telemetry query, snapshot, deletion or call to GitHub and returns a failure.
C13_EnumerationFailureAbortsSweep ==
    (invocation = "cleanup" /\ calls # <<>> /\ calls[1].outcome = "error") =>
        /\ Len(calls) = 1
        /\ pc = "done"
        /\ exc = "Exception"
        /\ result.statusCode = 500
        /\ live = {InstanceId(n) : n \in Instances}
        /\ snapshots = {}
        /\ branches \cup commits \cup pulls = {}

C13_Witness ==
    /\ invocation = "cleanup"
    /\ pc = "done"
    /\ calls = <<[op |-> "describe_db_instances", item |-> 0, arg |-> "tag:auto-cleanup",
                  outcome |-> "error", by |-> 1]>>
    /\ \A n \in Instances : n > 0 => autoCleanupTag[n]
    /\ result = CleanupError

\* C14: the result of every invocation reports the counts of items processed,
\* succeeded and failed.
C14_ResultReportsCounts ==
    pc = "done" =>
        /\ "processed" \in DOMAIN result
        /\ "succeeded" \in DOMAIN result \/ "deleted" \in DOMAIN result
        /\ "failed" \in DOMAIN result

\* The database name of the request of record i.
NameOf(i) == OneLayerDown(records[i])["database_name"]

\* The calls that name the Terraform file.
FileOps == {"create_file", "get_contents", "delete_file"}

\* C15: provisioning creates the file of database name n at the path that
\* decommissioning looks up and removes for instance identifier n,
\* terraform/rds_<n>.tf, and distinct names have distinct paths.
C15_SamePathInBothWorkflows ==
    LET fileCalls == {k \in DOMAIN calls : calls[k].op \in FileOps}
    IN  /\ invocation = "provision" =>
            /\ \A k \in fileCalls :
                /\ calls[k].arg = CleanupFilePath(NameOf(calls[k].item))
                /\ calls[k].arg = "terraform/rds_" \o NameOf(calls[k].item) \o ".tf"
            /\ \A k \in fileCalls :
                \A j \in fileCalls :
                    NameOf(calls[k].item) # NameOf(calls[j].item) =>
                        calls[k].arg # calls[j].arg
            /\ \A c \in commits : c.path = CleanupFilePath(NameOf(c.item))
        /\ invocation = "cleanup" =>
            /\ \A k \in fileCalls :
                /\ calls[k].arg = ProvisionFilePath(rds_instances[calls[k].item].identifier)
                /\ calls[k].arg
                       = "terraform/rds_" \o rds_instances[calls[k].item].identifier \o ".tf"
            /\ \A k \in fileCalls :
                \A j \in fileCalls :
                    calls[k].item # calls[j].item => calls[k].arg # calls[j].arg
            /\ \A c \in commits : c.path = ProvisionFilePath(rds_instances[c.item].identifier)

C15_Witness ==
    /\ invocation = "provision"
    /\ Len(records) = 2
    /\ ValidRequest(OneLayerDown(records[1]))
    /\ ValidRequest(OneLayerDown(records[2]))
    /\ NameOf(1) = "orders"
    /\ NameOf(2) = "users"
    /\ \E c \in commits : c.item = 1 /\ c.path = "terraform/rds_orders.tf"
    /\ \E c \in commits : c.item = 2 /\ c.path = "terraform/rds_users.tf"

\* The canonical (name, engine, environment) of the request of record i.
TripleOf(i) ==
    LET b == OneLayerDown(records[i])
    IN  <<b["database_name"], Lower(b["database_engine"]), Lower(b["environment"])>>

\* C16: two provisioning runs on the same (name, engine, environment) commit
\* the same path with the same content and open pull requests with the same
\* title; only the branch names, by their random token, may differ.
C16_RenderingIsDeterministic ==
    invocation = "provision" =>
        \A i, j \in DOMAIN records :
            (ValidRequest(OneLayerDown(records[i])) /\ ValidRequest(OneLayerDown(records[j]))
                /\ TripleOf(i) = TripleOf(j)) =>
                /\ \A x, y \in commits :
                    (x.item = i /\ y.item = j) =>
                        /\ x.path = y.path
                        /\ x.content = y.content
                        /\ x.change = y.change
                /\ \A p, q \in pulls :
                    (p.item = i /\ q.item = j) =>
                        /\ p.title = q.title
                        /\ p.base = q.base
                        /\ \E t, u \in Tokens :
                            /\ p.head = ProvisionBranch(TripleOf(i)[1], t)
                            /\ q.head = ProvisionBranch(TripleOf(j)[1], u)

C16_Witness ==
    /\ invocation = "provision"
    /\ Len(records) = 2
    /\ IsNotification(records[1])
    /\ ~IsNotification(records[2])
    /\ ValidRequest(OneLayerDown(records[1]))
    /\ ValidRequest(records[2])
    /\ TripleOf(1) = TripleOf(2)
    /\ \E p, q \in pulls :
        p.item = 1 /\ q.item = 2 /\ p.title = q.title /\ p.head # q.head
    /\ \E x, y \in commits : x.item = 1 /\ y.item = 2 /\ x.content = y.content

\* The positions of the history of the telemetry queries for `item`.
TelemetryCalls(item) == CallsOf(item, {"get_metric_statistics"})

\* The order in which the signals are evaluated.
SignalOrder ==
    <<"DatabaseConnections", "CPUUtilization",
      "NetworkReceiveThroughput", "NetworkTransmitThroughput">>

\* C18: the telemetry queries of an instance are made in the order
\* connections, CPU, network receive, network transmit; once a signal exceeds
\* its threshold the instance is classified active and no further query is
\* made for it.
C18_TelemetryShortCircuits ==
    invocation \in {"cleanup", "evaluate"} =>
        /\ LET queries == {k \in DOMAIN calls : calls[k].op = "get_metric_statistics"}
           IN  \A k \in queries :
                   LET n == Cardinality({j \in queries :
                                            j <= k /\ calls[j].item = calls[k].item})
                   IN  n <= 4 /\ calls[k].arg = SignalOrder[n]
        /\ pc \in {"is_rds_unused", "returned"} =>
               Len(tele) = Cardinality(TelemetryCalls(idx))
        /\ \A k \in DOMAIN tele :
            (~tele[k].raised /\ ~QuietSignal(k, tele[k].Datapoints)) =>
                /\ k = Len(tele)
                /\ pc = "returned"
                /\ ~retval
        /\ \A i \in DOMAIN verdict :
            verdict[i] # "none" => ~(i = idx /\ pc \in {"is_rds_unused", "returned"})

C18_Witness ==
    /\ invocation = "cleanup"
    /\ pc = "returned"
    /\ ~retval
    /\ Len(tele) = 2
    /\ tele[1] = Returned(<<[Sum |-> 100, Average |-> 100]>>)
    /\ tele[2] = Returned(<<[Sum |-> 6, Average |-> 6]>>)
    /\ \E j, k \in TelemetryCalls(idx) :
        /\ j < k
        /\ calls[j].arg = "DatabaseConnections"
        /\ calls[k].arg = "CPUUtilization"
        /\ k = Len(calls)

\* The calls a proposal or a cleanup makes that change something.
StepOps ==
    {"create_git_ref", "create_file", "delete_file", "create_pull",
     "create_db_snapshot", "delete_db_instance"}

\* C19: no step is retried: for each proposal the branch creation, the content
\* change and the pull request creation are attempted at most once, and for
\* each instance the snapshot and the delete are attempted at most once.
C19_NoStepIsRetried ==
    invocation \in {"provision", "cleanup"} =>
        LET steps == {k \in DOMAIN calls : calls[k].op \in StepOps}
        IN  \A k \in steps :
                \A j \in steps :
                    (calls[j].op = calls[k].op /\ calls[j].item = calls[k].item) => j = k

C19_Witness ==
    /\ invocation = "provision"
    /\ pc = "done"
    /\ idx = 1
    /\ exc = "GithubException"
    /\ Cardinality(CallsOf(1, {"create_git_ref"})) = 1
    /\ Cardinality(CallsOf(1, {"create_file"})) = 1
    /\ \E k \in CallsOf(1, {"create_file"}) : calls[k].outcome = "error" /\ k = Len(calls)

\* Every operation of a collaborator the two lambdas call.
KnownOps ==
    {"describe_db_instances", "get_metric_statistics"} \cup CleanupOps

\* C20: what a step has written stays when a later step fails: the branch and
\* the file change persist, a deleted instance stays deleted without a pull
\* request when its delete proposal fails, and no compensating call is made.
C20_PartialStateIsNotRolledBack ==
    /\ \A k \in DOMAIN calls :
        /\ calls[k].op \in KnownOps
        /\ (calls[k].op = "create_git_ref" /\ calls[k].outcome = "ok") =>
               \E b \in branches : b.name = calls[k].arg /\ b.item = calls[k].item
        /\ (calls[k].op \in {"create_file", "delete_file"} /\ calls[k].outcome = "ok") =>
               \E c \in commits : c.path = calls[k].arg /\ c.item = calls[k].item
        /\ (calls[k].op = "delete_db_instance" /\ calls[k].outcome = "ok") =>
               calls[k].arg \notin live
        /\ (calls[k].op = "create_db_snapshot" /\ calls[k].outcome = "ok") =>
               calls[k].arg \in snapshots
    /\ (invocation = "cleanup" /\ pc = "done" /\ result.statusCode = 500) =>
           \A p \in pulls : p.item # idx

C20_Witness ==
    /\ invocation = "provision"
    /\ pc = "done"
    /\ result.statusCode = 500
    /\ idx = 1
    /\ calls # <<>>
    /\ calls[Len(calls)].op = "create_pull"
    /\ calls[Len(calls)].outcome = "error"
    /\ \E b \in branches : b.item = 1 /\ b.name = branch_name
    /\ \E c \in commits : c.item = 1 /\ c.branch = branch_name
    /\ pulls = {}

\* The locals of sweep s, running or not.
SweepLocals(s) == IF s = self THEN Locals ELSE suspended

\* Sweep s has issued delete_db_instance for position i of its own list.
IssuedDelete(s, i) ==
    \E k \in DOMAIN calls :
        /\ calls[k].op = "delete_db_instance"
        /\ calls[k].by = s
        /\ calls[k].item = i
        /\ calls[k].arg = SweepLocals(s).rds_instances[i].identifier

\* C17: two overlapping sweeps are not coordinated: a sweep that has judged an
\* instance of its own list idle and has gone past the delete step has issued
\* its own delete_db_instance call for it, whatever the other sweep has done to
\* that instance.
C17_SweepsAreNotCoordinated ==
    suspended # NoSweep =>
        \A s \in {1, 2} :
            LET loc == SweepLocals(s)
            IN  \A i \in DOMAIN loc.verdict :
                    (loc.verdict[i] = "idle"
                        /\ ~(i = loc.idx
                             /\ loc.pc \in {"create_db_snapshot", "delete_db_instance"})) =>
                        IssuedDelete(s, i)

\* Both sweeps have listed db1, both have judged it idle, both have issued the
\* delete call for it and both have gone on to look up the same file.
C17_Witness ==
    /\ suspended # NoSweep
    /\ \A s \in {1, 2} :
        /\ SweepLocals(s).rds_instances = <<InstanceRecord(1)>>
        /\ SweepLocals(s).verdict = <<"idle">>
        /\ IssuedDelete(s, 1)
        /\ \E k \in DOMAIN calls :
            /\ calls[k].by = s
            /\ calls[k].op = "get_contents"
            /\ calls[k].arg = CleanupFilePath(InstanceId(1))
    /\ \E j, k \in DOMAIN calls :
        /\ j < k
        /\ calls[j].op = "delete_db_instance"
        /\ calls[k].op = "delete_db_instance"
        /\ calls[j].arg = calls[k].arg
        /\ calls[j].by # calls[k].by
        /\ \E m \in DOMAIN calls :
            /\ m < j
            /\ calls[m].op = "describe_db_instances"
            /\ calls[m].by = calls[k].by

====
